---- MODULE Spec2Model ----
(***************************************************************************)
(* Model of the risk-model estimation and backtesting functions of         *)
(* forecasting-ibex-sp500:                                                 *)
(*   volatility.py   : estimate_egarch, backtest_var                       *)
(*   risk_metrics.py : compute_es, christoffersen_test                     *)
(*   models.py       : estimate_arima                                      *)
(*                                                                         *)
(* Init draws one call and its arguments from small sets; every function   *)
(* is an action.  The arguments are in `args`; the call leaves its outcome *)
(* in                                                                      *)
(* `pc` ("returned", or "raised" for an exception) and `ret`.              *)
(* estimate_arima is a loop and takes one step per fit attempt; `attempts` *)
(* is the history of the orders it tried and how each fit ended.           *)
(*                                                                         *)
(* Floating point values are kept by their IEEE class: "nan", "ninf",      *)
(* "pinf" or "fin" (finite).  numpy scalar arithmetic never raises on a    *)
(* division by zero or on log(0): it yields inf/nan with a warning, and    *)
(* the class algebra below follows those rules.  A finite lr_ind of        *)
(* christoffersen_test is kept by its sign: "neg", "zero" or "pos".        *)
(***************************************************************************)
EXTENDS Integers, Sequences, FiniteSets

\* ---------------------------------------------------------------- bounds
MaxLen == 4        \* longest return / VaR series given to backtest_var
MaxVal == 1        \* returns and VaR values range over -MaxVal..0

Vals == (0 - MaxVal)..0

\* alpha as an exact fraction <<numerator, denominator>>: 0, 0.05, 0.8, 1
Alphas == {<<0, 1>>, <<1, 20>>, <<4, 5>>, <<1, 1>>}

VARIABLES pc, fn, args, ret,
          p, q, best_aic, best_order, best_model, attempts

vars == <<pc, fn, args, ret, p, q, best_aic, best_order, best_model, attempts>>

search == <<p, q, best_aic, best_order, best_model, attempts>>

NoValue == [tag |-> "None"]

\* ------------------------------------------------- floating point classes
FNeg(a) == CASE a = "ninf" -> "pinf"
             [] a = "pinf" -> "ninf"
             [] OTHER -> a

FAdd(a, b) ==
    IF a = "nan" \/ b = "nan" THEN "nan"
    ELSE IF (a = "ninf" /\ b = "pinf") \/ (a = "pinf" /\ b = "ninf") THEN "nan"
    ELSE IF a \in {"ninf", "pinf"} THEN a
    ELSE IF b \in {"ninf", "pinf"} THEN b
    ELSE "fin"

FSub(a, b) == FAdd(a, FNeg(b))

\* integer k times a float of class a (0 * inf is nan)
FMulInt(k, a) ==
    IF a = "nan" THEN "nan"
    ELSE IF a = "fin" THEN "fin"
    ELSE IF k = 0 THEN "nan"
    ELSE IF k < 0 THEN FNeg(a)
    ELSE a

\* np.log of a number in [0, 1] given as the fraction num/den: log(0) = -inf
FLog(num, den) == IF num = 0 THEN "ninf" ELSE "fin"

\* 1 - chi2.cdf(lr, 1): NaN stays NaN, everything else is a probability
Chi2Sf(lr) == IF lr = "nan" THEN "nan" ELSE "fin"

\* ------------------------------------------------------------ backtest_var
\* exceptions = (returns < var_series).astype(int)
ExceedsOrEqual(r, v) == IF r <= v THEN 1 ELSE 0
Exceeds(r, v) == IF r < v THEN 1 ELSE 0

Exceptions(returns, var_series) ==
    [t \in 1..Len(returns) |-> Exceeds(returns[t], var_series[t])]

RECURSIVE SumSeq(_)
SumSeq(s) == IF s = <<>> THEN 0 ELSE s[1] + SumSeq(Tail(s))

\* if x in [0, n]
KupiecDegenerateOnlyZero(x, n) == x = 0
KupiecDegenerate(x, n) == x = 0 \/ x = n

\* base ** e for a base num/den in [0, 1] and an integer e >= 0:
\* TRUE when the power is zero (0 ** 0 is 1)
PowIsZero(num, e) == num = 0 /\ e > 0

\* np.log(((1 - a) ** (n - x)) * (a ** x)) for a = num/den
LogLik(num, den, n, x) ==
    IF PowIsZero(den - num, n - x) \/ PowIsZero(num, x) THEN "ninf" ELSE "fin"

\* lr_uc = -2 * (log L(alpha) - log L(pi_hat)), pi_hat = x / n
KupiecLR(alpha, n, x) ==
    FMulInt(0 - 2, FSub(LogLik(alpha[1], alpha[2], n, x), LogLik(x, n, n, x)))

\* round(v, 2) of v = num/den >= 0, as a count of hundredths.  The quotient
\* is a float, so an exact tie may go to either neighbour.
Round2Floor(num, den) == {(100 * num) \div den}
Round2(num, den) ==
    LET k == (100 * num) \div den
        r == (100 * num) % den
    IN  IF 2 * r < den THEN {k}
        ELSE IF 2 * r > den THEN {k + 1}
        ELSE {k, k + 1}

\* round(pi_hat / alpha, 2) with pi_hat = x / n
ViolationRatio(alpha, n, x) ==
    IF n = 0 THEN {[cls |-> "nan", h |-> 0]}              \* 0 / 0
    ELSE IF alpha[1] = 0
         THEN {[cls |-> IF x = 0 THEN "nan" ELSE "pinf", h |-> 0]}
    ELSE {[cls |-> "fin", h |-> k] : k \in Round2(x * alpha[2], n * alpha[1])}

\* the set of reports backtest_var can return
backtest_var(returns, var_series, alpha) ==
    LET exceptions == Exceptions(returns, var_series)
        n == Len(exceptions)
        x == SumSeq(exceptions)
        lr_uc == IF KupiecDegenerate(x, n) THEN "nan" ELSE KupiecLR(alpha, n, x)
        p_value == IF KupiecDegenerate(x, n) THEN "nan" ELSE Chi2Sf(lr_uc)
    IN  {[alpha |-> alpha, n |-> n, violations |-> x, violation_ratio |-> vr,
          kupiec_lr |-> lr_uc, p_value |-> p_value] :
            vr \in ViolationRatio(alpha, n, x)}

\* ---------------------------------------------------- christoffersen_test
MaxObs == 8        \* longest exceedance sequence given to christoffersen_test

IntVal(v) == [cls |-> "int", v |-> v]
NaNVal == [cls |-> "nan", v |-> 0]

\* x_t = x[:-1].values ; x_tp1 = x[1:].values
XT(x) == SubSeq(x, 1, Len(x) - 1)
XTp1(x) == SubSeq(x, 2, Len(x))

\* np.sum((x_t == i) & (x_tp1 == j))
TransitionsSwapped(x, i, j) ==
    SumSeq([t \in 1..Len(XT(x)) |->
               IF XT(x)[t] = j /\ XTp1(x)[t] = i THEN 1 ELSE 0])
Transitions(x, i, j) ==
    SumSeq([t \in 1..Len(XT(x)) |->
               IF XT(x)[t] = i /\ XTp1(x)[t] = j THEN 1 ELSE 0])

\* if len(x) < 2
TooShortOnlyEmpty(x) == Len(x) < 1
TooShort(x) == Len(x) < 2

\* the report returned for fewer than two observations
AllNaNReport ==
    [n00 |-> NaNVal, n01 |-> NaNVal, n10 |-> NaNVal, n11 |-> NaNVal,
     lr_ind |-> "nan", p_value |-> "nan"]

\* if (n01 + n00) == 0 or (n10 + n11) == 0 or (n01 + n11) == 0
Degenerate(n00, n01, n10, n11) ==
    (n01 + n00) = 0 \/ (n10 + n11) = 0 \/ (n01 + n11) = 0

\* the report returned when a marginal sum is zero
DegenerateReportNoCounts(n00, n01, n10, n11) == AllNaNReport
DegenerateReport(n00, n01, n10, n11) ==
    [n00 |-> IntVal(n00), n01 |-> IntVal(n01), n10 |-> IntVal(n10),
     n11 |-> IntVal(n11), lr_ind |-> "nan", p_value |-> "nan"]

\* logL0 = (n00 + n01) * log(1 - pi) + (n10 + n11) * log(pi),
\* pi = (n01 + n11) / (n00 + n01 + n10 + n11)
LogL0(n00, n01, n10, n11) ==
    LET tot == n00 + n01 + n10 + n11
    IN  FAdd(FMulInt(n00 + n01, FLog(n00 + n10, tot)),
             FMulInt(n10 + n11, FLog(n01 + n11, tot)))

\* logL1 = n00 * log(1 - pi_01) + n01 * log(pi_01)
\*       + n10 * log(1 - pi_11) + n11 * log(pi_11),
\* pi_01 = n01 / (n00 + n01), pi_11 = n11 / (n10 + n11)
LogL1(n00, n01, n10, n11) ==
    FAdd(FAdd(FMulInt(n00, FLog(n00, n00 + n01)),
              FMulInt(n01, FLog(n01, n00 + n01))),
         FAdd(FMulInt(n10, FLog(n10, n10 + n11)),
              FMulInt(n11, FLog(n11, n10 + n11))))

\* lr_ind = -2 * (logL0 - logL1)
LRind(n00, n01, n10, n11) ==
    FMulInt(0 - 2, FSub(LogL0(n00, n01, n10, n11), LogL1(n00, n01, n10, n11)))

\* Exact natural numbers beyond the machine range, as little-endian digit
\* sequences in base BigBase, to weigh the two likelihoods against each other.
BigBase == 10000

RECURSIVE BigTimesCarry(_, _, _)
BigTimesCarry(a, k, carry) ==
    IF a = <<>> THEN (IF carry = 0 THEN <<>> ELSE <<carry>>)
    ELSE LET v == a[1] * k + carry
         IN  <<v % BigBase>> \o BigTimesCarry(Tail(a), k, v \div BigBase)

\* a * k for a digit sequence a and 1 <= k < BigBase
BigTimes(a, k) == BigTimesCarry(a, k, 0)

\* a * base ** e
RECURSIVE BigTimesPow(_, _, _)
BigTimesPow(a, base, e) ==
    IF e = 0 THEN a ELSE BigTimesPow(BigTimes(a, base), base, e - 1)

\* a < b, from the most significant digit down
RECURSIVE BigLessFrom(_, _, _)
BigLessFrom(a, b, i) ==
    IF i = 0 THEN FALSE
    ELSE IF a[i] # b[i] THEN a[i] < b[i]
    ELSE BigLessFrom(a, b, i - 1)

BigLess(a, b) ==
    IF Len(a) # Len(b) THEN Len(a) < Len(b) ELSE BigLessFrom(a, b, Len(a))

\* exp(logL0) and exp(logL1) for counts that are all positive, both times
\* the common denominator tot**tot * (n00+n01)**(n00+n01) * (n10+n11)**(n10+n11):
\*   exp(logL0) = (1 - pi)**(n00+n01) * pi**(n10+n11)
\*   exp(logL1) = (1 - pi_01)**n00 * pi_01**n01 * (1 - pi_11)**n10 * pi_11**n11
LikL0(n00, n01, n10, n11) ==
    BigTimesPow(BigTimesPow(BigTimesPow(BigTimesPow(<<1>>,
        n00 + n10, n00 + n01), n01 + n11, n10 + n11),
        n00 + n01, n00 + n01), n10 + n11, n10 + n11)

LikL1(n00, n01, n10, n11) ==
    BigTimesPow(BigTimesPow(BigTimesPow(BigTimesPow(BigTimesPow(<<1>>,
        n00, n00), n01, n01), n10, n10), n11, n11),
        n00 + n01 + n10 + n11, n00 + n01 + n10 + n11)

\* the sign of a finite lr_ind = -2 * (logL0 - logL1), in exact arithmetic
LRindSign(n00, n01, n10, n11) ==
    IF BigLess(LikL1(n00, n01, n10, n11), LikL0(n00, n01, n10, n11)) THEN "neg"
    ELSE IF BigLess(LikL0(n00, n01, n10, n11), LikL1(n00, n01, n10, n11)) THEN "pos"
    ELSE "zero"

\* lr_ind as reported: "nan", or its sign "neg", "zero", "pos" when finite
\* (it is finite only when the four counts are all positive)
LRindValue(n00, n01, n10, n11) ==
    IF LRind(n00, n01, n10, n11) = "fin"
    THEN LRindSign(n00, n01, n10, n11)
    ELSE LRind(n00, n01, n10, n11)

christoffersen_test(x) ==
    LET n00 == Transitions(x, 0, 0)
        n01 == Transitions(x, 0, 1)
        n10 == Transitions(x, 1, 0)
        n11 == Transitions(x, 1, 1)
    IN  IF TooShort(x) THEN AllNaNReport
        ELSE IF Degenerate(n00, n01, n10, n11)
             THEN DegenerateReport(n00, n01, n10, n11)
        ELSE [n00 |-> IntVal(n00), n01 |-> IntVal(n01), n10 |-> IntVal(n10),
              n11 |-> IntVal(n11), lr_ind |-> LRindValue(n00, n01, n10, n11),
              p_value |-> Chi2Sf(LRind(n00, n01, n10, n11))]

\* -------------------------------------------------------------- compute_es
MaxSigmaLen == 2   \* longest volatility series given to compute_es
MaxSigma == 1      \* volatilities range over 0..MaxSigma
MaxDof2 == 4       \* degrees of freedom range over 0, 1/2, 1, ..., MaxDof2/2

\* tail probabilities given to compute_es: 0.01 (the default) and 0.05
EsAlphas == {<<1, 100>>, <<1, 20>>}

\* es_std = -f_q * (dof + q**2) / ((dof - 1) * alpha) with q = t.ppf(alpha, dof)
\* and f_q = t.pdf(q, dof), by sign: "nan", "ninf", "neg" or "pos".
\* dof is dof2 / 2 and alpha is in (0, 1).  scipy gives nan for dof <= 0; for
\* dof = 1 the division is by 0.0 and numpy yields -inf; for dof < 1 the
\* divisor is negative.
EsStd(dof2, alpha) ==
    IF dof2 <= 0 THEN "nan"
    ELSE IF dof2 < 2 THEN "pos"
    ELSE IF dof2 = 2 THEN "ninf"
    ELSE "neg"

\* es_std * sigma_t for a volatility sigma_t >= 0
EsTimes(es_std, sigma_t) ==
    IF es_std = "nan" THEN "nan"
    ELSE IF sigma_t = 0 THEN (IF es_std = "ninf" THEN "nan" ELSE "zero")
    ELSE es_std

\* es = es_std * sigma
compute_es(sigma, dof2, alpha) ==
    [t \in 1..Len(sigma) |-> EsTimes(EsStd(dof2, alpha), sigma[t])]

\* ---------------------------------------------------------- estimate_egarch
\* model_fit = am.fit(disp="off"): arch reports an optimizer that stopped
\* without converging by a ConvergenceWarning and a non-zero
\* convergence_flag on the result it returns
ArchFit(dist, converged) ==
    [tag |-> "ARCHModelResult", dist |-> dist,
     convergence_flag |-> IF converged THEN 0 ELSE 1]

\* ----------------------------------------------------------- estimate_arima
MaxP == 1          \* largest max_p
MaxQ == 1          \* largest max_q
MaxAic == 2        \* AIC values of a fitted model range over 1..MaxAic

AicInf == [cls |-> "pinf", v |-> 0]
AicOf(a) == [cls |-> "fin", v |-> a]

\* if model.aic < best_aic
AicBetterOrEqual(aic, best) == best.cls = "pinf" \/ aic <= best.v
AicBetter(aic, best) == best.cls = "pinf" \/ aic < best.v

\* the next (p, q) of the nested for loops, or the end of the search
Advance ==
    IF q < args.max_q THEN pc' = "loop" /\ q' = q + 1 /\ p' = p
    ELSE IF p < args.max_p THEN pc' = "loop" /\ q' = 0 /\ p' = p + 1
    ELSE pc' = "print" /\ UNCHANGED <<p, q>>

\* best_aic = np.inf; best_order = None; best_model = None; first (p, q)
ArimaBegin ==
    /\ pc = "call" /\ fn = "estimate_arima"
    /\ p' = 0 /\ q' = 0
    /\ best_aic' = AicInf
    /\ best_order' = NoValue
    /\ best_model' = NoValue
    /\ attempts' = <<>>
    /\ pc' = "loop"
    /\ UNCHANGED <<fn, args, ret>>

\* ARIMA(series, order=(p, d, q)).fit() returns a model with AIC aic
ArimaFitOk ==
    /\ pc = "loop"
    /\ \E aic \in 1..MaxAic :
       LET order == <<p, args.d, q>>
           model == [tag |-> "ARIMAResults", order |-> order, aic |-> aic]
       IN  /\ attempts' = Append(attempts, [order |-> order, ok |-> TRUE, aic |-> aic])
           /\ IF AicBetter(aic, best_aic)
              THEN /\ best_aic' = AicOf(aic)
                   /\ best_order' = [tag |-> "order", order |-> order]
                   /\ best_model' = model
              ELSE UNCHANGED <<best_aic, best_order, best_model>>
    /\ Advance
    /\ UNCHANGED <<fn, args, ret>>

\* the fit raises: except Exception: continue
ArimaFitRaises ==
    /\ pc = "loop"
    /\ attempts' = Append(attempts, [order |-> <<p, args.d, q>>, ok |-> FALSE, aic |-> 0])
    /\ Advance
    /\ UNCHANGED <<fn, args, ret, best_aic, best_order, best_model>>

\* print(...); return best_model
ArimaReturn ==
    /\ pc = "print"
    /\ ret' = best_model
    /\ pc' = "returned"
    /\ UNCHANGED <<fn, args, search>>

\* ------------------------------------------------------------------ calls
InitBacktestVar ==
    \E n \in 0..MaxLen :
    \E returns \in [1..n -> Vals], var_series \in [1..n -> Vals], alpha \in Alphas :
       /\ fn = "backtest_var"
       /\ args = [returns |-> returns, var_series |-> var_series, alpha |-> alpha]

InitChristoffersen ==
    \E n \in 0..MaxObs : \E x \in [1..n -> {0, 1}] :
       /\ fn = "christoffersen_test"
       /\ args = [exceedances |-> x]

InitComputeEs ==
    \E n \in 0..MaxSigmaLen :
    \E sigma \in [1..n -> 0..MaxSigma], dof2 \in 0..MaxDof2, alpha \in EsAlphas :
       /\ fn = "compute_es"
       /\ args = [sigma |-> sigma, dof2 |-> dof2, alpha |-> alpha]

InitEstimateEgarch ==
    \E dist \in {"t", "normal"}, converges \in BOOLEAN :
       /\ fn = "estimate_egarch"
       /\ args = [dist |-> dist, converges |-> converges]

InitEstimateArima ==
    \E max_p \in 0..MaxP, max_q \in 0..MaxQ, d \in {0, 1} :
       /\ fn = "estimate_arima"
       /\ args = [max_p |-> max_p, max_q |-> max_q, d |-> d]

CallBacktestVar ==
    /\ pc = "call" /\ fn = "backtest_var"
    /\ \E report \in backtest_var(args.returns, args.var_series, args.alpha) :
          ret' = report
    /\ pc' = "returned"
    /\ UNCHANGED <<fn, args, search>>

CallChristoffersen ==
    /\ pc = "call" /\ fn = "christoffersen_test"
    /\ ret' = christoffersen_test(args.exceedances)
    /\ pc' = "returned"
    /\ UNCHANGED <<fn, args, search>>

CallComputeEs ==
    /\ pc = "call" /\ fn = "compute_es"
    /\ ret' = compute_es(args.sigma, args.dof2, args.alpha)
    /\ pc' = "returned"
    /\ UNCHANGED <<fn, args, search>>

\* args.converges tells whether the optimizer converges on the series
\* within its iteration limit; estimate_egarch returns whatever fit() returned
CallEstimateEgarch ==
    /\ pc = "call" /\ fn = "estimate_egarch"
    /\ ret' = ArchFit(args.dist, args.converges)
    /\ pc' = "returned"
    /\ UNCHANGED <<fn, args, search>>

Init ==
    /\ pc = "call"
    /\ ret = NoValue
    /\ p = 0 /\ q = 0
    /\ best_aic = AicInf
    /\ best_order = NoValue
    /\ best_model = NoValue
    /\ attempts = <<>>
    /\ \/ InitBacktestVar
       \/ InitChristoffersen
       \/ InitComputeEs
       \/ InitEstimateEgarch
       \/ InitEstimateArima

Next ==
    \/ CallBacktestVar
    \/ CallChristoffersen
    \/ CallComputeEs
    \/ CallEstimateEgarch
    \/ ArimaBegin
    \/ ArimaFitOk
    \/ ArimaFitRaises
    \/ ArimaReturn

Spec == Init /\ [][Next]_vars

\* ============================================================== properties
Returned(f) == fn = f /\ pc = "returned"
Finished(f) == fn = f /\ pc \in {"returned", "raised"}

\* number of positions where the return is strictly below the VaR
NumBelow(returns, var_series) ==
    Cardinality({t \in 1..Len(returns) : returns[t] < var_series[t]})

\* number of positions t with (x[t], x[t+1]) = (i, j)
PairCount(x, i, j) ==
    Cardinality({t \in 1..(Len(x) - 1) : x[t] = i /\ x[t + 1] = j})

Abs(k) == IF k < 0 THEN 0 - k ELSE k

\* C1: when the number of violations is 0 or n (n = 0 included), backtest_var
\* returns a report (it does not raise) whose kupiec_lr and p_value are NaN.
C1_KupiecDegenerateNaN ==
    (Finished("backtest_var")
       /\ NumBelow(args.returns, args.var_series) \in {0, Len(args.returns)})
    => /\ pc = "returned"
       /\ ret.kupiec_lr = "nan"
       /\ ret.p_value = "nan"

C1_Witness ==
    /\ Returned("backtest_var")
    /\ Len(args.returns) >= 2
    /\ NumBelow(args.returns, args.var_series) = Len(args.returns)
    /\ ret.violations = ret.n
    /\ ret.kupiec_lr = "nan"

\* C2: for a sequence of at least 2 observations with a zero marginal sum
\* (n00+n01, n10+n11 or n01+n11), christoffersen_test returns lr_ind = NaN and
\* p_value = NaN together with the four actual transition counts.
C2_DegenerateKeepsCounts ==
    LET x == args.exceedances
    IN  (Returned("christoffersen_test") /\ Len(x) >= 2
           /\ (\/ PairCount(x, 0, 0) + PairCount(x, 0, 1) = 0
               \/ PairCount(x, 1, 0) + PairCount(x, 1, 1) = 0
               \/ PairCount(x, 0, 1) + PairCount(x, 1, 1) = 0))
        => /\ ret.lr_ind = "nan"
           /\ ret.p_value = "nan"
           /\ ret.n00 = IntVal(PairCount(x, 0, 0))
           /\ ret.n01 = IntVal(PairCount(x, 0, 1))
           /\ ret.n10 = IntVal(PairCount(x, 1, 0))
           /\ ret.n11 = IntVal(PairCount(x, 1, 1))

\* only n01 + n11 is zero: an exceedance followed by none
C2_Witness ==
    /\ Returned("christoffersen_test")
    /\ args.exceedances = <<1, 0, 0>>
    /\ ret.lr_ind = "nan"
    /\ ret.n00 = IntVal(1)
    /\ ret.n10 = IntVal(1)

\* C3: the exceedance indicator at t is 1 iff return_t < VaR_t (equality is
\* no exceedance); the reported n is the input length, the reported
\* violations the number of such positions, and 0 <= violations <= n.
C3_StrictExceedanceCount ==
    Returned("backtest_var")
    => /\ \A t \in 1..Len(args.returns) :
             Exceptions(args.returns, args.var_series)[t]
               = (IF args.returns[t] < args.var_series[t] THEN 1 ELSE 0)
       /\ ret.n = Len(args.returns)
       /\ ret.violations = NumBelow(args.returns, args.var_series)
       /\ 0 <= ret.violations
       /\ ret.violations <= ret.n

\* a return equal to its VaR next to a return below its VaR
C3_Witness ==
    /\ Returned("backtest_var")
    /\ \E t \in 1..Len(args.returns) : args.returns[t] = args.var_series[t]
    /\ \E t \in 1..Len(args.returns) : args.returns[t] < args.var_series[t]
    /\ ret.violations >= 1
    /\ ret.violations < ret.n

\* C4 as stated: for n >= 1 and alpha in (0,1) the reported violation_ratio
\* equals (x/n)/alpha exactly.
C4_ViolationRatioExact ==
    (Returned("backtest_var") /\ ret.n >= 1
       /\ 0 < args.alpha[1] /\ args.alpha[1] < args.alpha[2])
    => /\ ret.violation_ratio.cls = "fin"
       /\ ret.violation_ratio.h * ret.n * args.alpha[1]
            = 100 * ret.violations * args.alpha[2]

\* C4 amended: for n >= 1 and alpha in (0,1) the reported violation_ratio is
\* (x/n)/alpha rounded to two decimals: a whole number of hundredths that is
\* within half a hundredth of (x/n)/alpha.
C4_ViolationRatioRounded ==
    (Returned("backtest_var") /\ ret.n >= 1
       /\ 0 < args.alpha[1] /\ args.alpha[1] < args.alpha[2])
    => /\ ret.violation_ratio.cls = "fin"
       /\ 2 * Abs(ret.violation_ratio.h * ret.n * args.alpha[1]
                    - 100 * NumBelow(args.returns, args.var_series) * args.alpha[2])
            <= ret.n * args.alpha[1]

\* 1 violation in 3 at alpha = 0.05: 6.666... is reported as 6.67
C4_Witness ==
    /\ Returned("backtest_var")
    /\ ret.n = 3 /\ ret.violations = 1
    /\ args.alpha = <<1, 20>>
    /\ ret.violation_ratio = [cls |-> "fin", h |-> 667]

\* the i-th order of the grid in p-major, q-minor ascending order
GridOrder(i) ==
    <<(i - 1) \div (args.max_q + 1), args.d, (i - 1) % (args.max_q + 1)>>

GridSize == (args.max_p + 1) * (args.max_q + 1)

\* positions of the attempts whose fit succeeded
Fitted == {i \in 1..Len(attempts) : attempts[i].ok}

\* fitted attempts of minimum AIC
MinAic == {i \in Fitted : \A j \in Fitted : attempts[i].aic <= attempts[j].aic}

\* C5: estimate_arima visits the orders (p,d,q), p in 0..max_p, q in
\* 0..max_q, in p-major q-minor ascending order; a fit that raises is skipped
\* and the search goes on over the remaining orders; the returned model is a
\* fitted order of minimum AIC over the fitted orders, the first visited
\* among those of equal minimum AIC.
C5_ArimaFirstMinAic ==
    fn = "estimate_arima"
    => /\ Len(attempts) <= GridSize
       /\ \A i \in 1..Len(attempts) : attempts[i].order = GridOrder(i)
       /\ pc \in {"print", "returned"} => Len(attempts) = GridSize
       /\ (pc = "returned" /\ Fitted # {})
          => \E i \in MinAic :
                /\ \A j \in MinAic : i <= j
                /\ ret = [tag |-> "ARIMAResults", order |-> attempts[i].order,
                          aic |-> attempts[i].aic]

\* a failed fit, then two fits of equal minimum AIC, then a worse one
C5_Witness ==
    /\ Returned("estimate_arima")
    /\ Len(attempts) >= 4
    /\ ~attempts[1].ok
    /\ \E i, j \in MinAic : i < j /\ ret.order = attempts[i].order
    /\ \E k \in Fitted : k \notin MinAic

\* C6: when the fit fails for every (p,q) of the grid, estimate_arima fails
\* with NoConvergentModelError and returns nothing to the caller.
C6_AllFailRaises ==
    (Finished("estimate_arima") /\ Fitted = {})
    => pc = "raised"

\* C7: compute_es called with dof <= 1 fails with InvalidParameterError and
\* returns no ES series.
C7_EsDofRaises ==
    (Finished("compute_es") /\ args.dof2 <= 2)
    => pc = "raised"

\* C8: estimate_egarch fails with ConvergenceError, and returns no fitted
\* model, whenever the optimizer does not converge.
C8_EgarchNoConvergenceRaises ==
    (Finished("estimate_egarch") /\ ~args.converges)
    => pc = "raised"

\* C9: for a sequence of fewer than 2 observations christoffersen_test returns
\* a report whose six fields are all NaN (or fails); it never returns numeric
\* counts or a numeric statistic.
C9_TooShortAllNaN ==
    (Finished("christoffersen_test") /\ Len(args.exceedances) < 2)
    => \/ pc = "raised"
       \/ /\ ret.n00.cls = "nan" /\ ret.n01.cls = "nan"
          /\ ret.n10.cls = "nan" /\ ret.n11.cls = "nan"
          /\ ret.lr_ind = "nan" /\ ret.p_value = "nan"

C9_Witness ==
    /\ Returned("christoffersen_test")
    /\ Len(args.exceedances) = 1
    /\ ret.n00 = NaNVal
    /\ ret.lr_ind = "nan"

\* C10: for a sequence x of n >= 2 observations, the returned n_ij is the
\* number of positions t with (x_t, x_t+1) = (i, j); so the four counts sum
\* to n-1, n01+n11 is the number of exceedances among all but the first
\* observation, and n01 and n10 differ by at most 1.
C10_TransitionCounts ==
    LET x == args.exceedances
    IN  (Returned("christoffersen_test") /\ Len(x) >= 2)
        => /\ \A i, j \in {0, 1} :
                 (CASE <<i, j>> = <<0, 0>> -> ret.n00
                    [] <<i, j>> = <<0, 1>> -> ret.n01
                    [] <<i, j>> = <<1, 0>> -> ret.n10
                    [] OTHER -> ret.n11) = IntVal(PairCount(x, i, j))
           /\ ret.n00.v + ret.n01.v + ret.n10.v + ret.n11.v = Len(x) - 1
           /\ ret.n01.v + ret.n11.v = Cardinality({t \in 2..Len(x) : x[t] = 1})
           /\ Abs(ret.n01.v - ret.n10.v) <= 1

\* every kind of transition occurs
C10_Witness ==
    /\ Returned("christoffersen_test")
    /\ ret.n00.cls = "int"
    /\ ret.n00.v >= 1 /\ ret.n01.v >= 1 /\ ret.n10.v >= 1 /\ ret.n11.v >= 1
    /\ ret.n01.v # ret.n10.v

\* C11: for a sequence of at least 2 observations whose three marginal sums
\* n00+n01, n10+n11 and n01+n11 are all non-zero, christoffersen_test returns
\* a defined (non-NaN) lr_ind and a defined p_value.
C11_NonDegenerateDefined ==
    LET x == args.exceedances
    IN  (Returned("christoffersen_test") /\ Len(x) >= 2
           /\ PairCount(x, 0, 0) + PairCount(x, 0, 1) # 0
           /\ PairCount(x, 1, 0) + PairCount(x, 1, 1) # 0
           /\ PairCount(x, 0, 1) + PairCount(x, 1, 1) # 0)
        => /\ ret.lr_ind # "nan"
           /\ ret.p_value # "nan"

\* C12: whenever christoffersen_test returns a defined lr_ind, lr_ind >= 0:
\* the likelihood it computes under the Markov alternative is at least the
\* likelihood it computes under independence.
C12_LRindNonNegative ==
    (Returned("christoffersen_test") /\ ret.lr_ind # "nan")
    => ret.lr_ind \in {"zero", "pos", "pinf"}
====
